---- MODULE Spec2Model ----
(***************************************************************************)
(* A model of pyvivado's project lifecycle (VivadoProject), of its task    *)
(* store and supervised tasks as exercised by qa_task.py, and of the       *)
(* input-file rotation of FileTestBenchProject, and of the redis           *)
(* Connection to a hardware monitor.                                       *)
(***************************************************************************)
EXTENDS Integers, Sequences, FiniteSets, TLC

\* ------------------------------------------------------------------ bounds
\* The number of task records that may be created in one behaviour.
MaxTasks == 3
\* The number of ticks of the file system's modification-time clock.
MaxClock == 2
\* The largest time_limit given to kill_monitor.
MaxTimeLimit == 2
\* The largest finite timeout of wait_for_response, in units of its waittime,
\* and the number of polls after which a wait without timeout is cut off.
MaxTimeout == 2
\* The number of requests stored on the channel in one behaviour.
MaxRequests == 2

\* ------------------------------------------------------------- value sets
NoneVal == "None"
Parts == {NoneVal, "xc7a"}
Boards == {NoneVal, "known_board", "custom_board"}
\* The keys of boards.params: boards whose part is implied by the board.
KnownBoards == {"known_board"}
Hashes == {"h1", "h2"}

MarkerFile == "TheProject.xpr"
ParamsFile == "params.txt"
HashFile == "hash"
Artifacts == [synthesize |-> "synth_run", implement |-> "impl_run",
              generate_reports |-> "impl_utilization.txt"]
ProjectDir == "vivado"

VARIABLES
    dirExists,   \* os.path.exists(self.directory)
    files,       \* the names of the files in the project directory
    paramsVal,   \* the contents of params.txt (NoParams when absent)
    hashVal,     \* the persisted fingerprint (NoneVal when absent)
    curHash,     \* project.get_hash(): the fingerprint of the current dependencies
    simOut,      \* whether the simulation's output file exists
    store,       \* the task store: task id -> record
    procs,       \* the ids of the tasks whose external process is alive
    nextId,      \* the next task id the store hands out
    pc,          \* the position of the caller
    call,        \* the locals of the call in progress
    self,        \* the attributes of the last VivadoProject constructed
    result,      \* how the last open ended: returned ("ok_...") or raised ("err_...")
    simRet,      \* how the last run_simulation ended and what it returned
    \* qa_task.py
    qpc,         \* the position of the test process
    qt,          \* the task object `t` of the running test (0: none)
    passed,      \* task id -> the parent_directory given to create() since drop()
    qaErrors,    \* what get_errors() returned (-1: not called)
    \* FileTestBenchProject.update_input_data
    ftpc,        \* the position inside update_input_data
    ftCall,      \* its arguments (test_name, input_data)
    ftDirs,      \* the test directories that exist
    inFile,      \* test_name -> input.data
    oldFile,     \* test_name -> old_input.data
    clock,       \* the modification-time clock of the file system
    ftRet,       \* the value update_input_data returned last
    ftPrev,      \* test_name -> the data the preceding call wrote
    ftLast,      \* test_name -> input.data as the call that ended last left it
    \* redis_connection.Connection
    monAlive,    \* redis_utils.hwcode_A_active(hwcode)
    killFlag,    \* the value under self.kill (0: not set)
    comm,        \* the value under self.name: the channel
    listened,    \* the heartbeat under self.listened: "unset", "fresh" or "stale"
    monPending,  \* the request the monitor has taken and not yet answered (0: none)
    reqSeq,      \* the number of requests stored so far
    rpc,         \* the position of the caller of the Connection
    rcall,       \* the locals of its call in progress
    rret         \* how its last call ended

fsVars == <<dirExists, files, paramsVal, hashVal>>
taskVars == <<store, procs, nextId>>
callerVars == <<pc, call, self, result, simRet>>
envVars == <<curHash, simOut>>
qaVars == <<qpc, qt, passed, qaErrors>>
ftbVars == <<ftpc, ftCall, ftDirs, inFile, oldFile, clock, ftRet, ftPrev, ftLast>>
chanVars == <<comm, listened, monPending, reqSeq>>
redisVars == <<monAlive, killFlag, comm, listened, monPending, reqSeq, rpc, rcall, rret>>
vars == <<dirExists, files, paramsVal, hashVal, curHash, simOut,
          store, procs, nextId, pc, call, self, result, simRet,
          qpc, qt, passed, qaErrors,
          ftpc, ftCall, ftDirs, inFile, oldFile, clock, ftRet, ftPrev, ftLast,
          monAlive, killFlag, comm, listened, monPending, reqSeq, rpc, rcall, rret>>

NoCall == [op |-> "none"]
\* What ParamsHelper.read returns when there is no params.txt (None).
NoParams == [part |-> "absent", board |-> "absent"]
NoObj == [part |-> "unset", board |-> "unset"]
OpenErrors == {"err_marker", "err_conflict", "err_noparams", "err_stale",
               "err_exists", "err_assert"}
OpenReturns == {"ok_fresh", "ok_reused", "ok_rebuilt"}

\* ------------------------------------------------- collaborators (helpers)
\* params_helper.ParamsHelper.read: the persisted parameters, or None.
ParamsRead == IF ParamsFile \in files THEN paramsVal ELSE NoParams

\* hash_helper.HashHelper.is_changed: no persisted hash counts as changed.
HashIsChanged == (HashFile \notin files) \/ (hashVal # curHash)

\* tasks_collection / vivado_task.VivadoTask.create: allocate an id and persist
\* a record with status "created".
CreateRecord(kind, directory) ==
    /\ store' = [i \in (DOMAIN store) \cup {nextId} |->
                    IF i = nextId
                    THEN [parent_directory |-> directory, kind |-> kind,
                          status |-> "created", errors |-> 0]
                    ELSE store[i]]
    /\ nextId' = nextId + 1

\* The record of task t with its status changed.
WithStatus(t, status, errors) ==
    [i \in DOMAIN store |->
        IF i = t THEN [store[i] EXCEPT !.status = status, !.errors = errors]
        ELSE store[i]]

\* ------------------------------------------------------ VivadoProject open
\* NewParams without lines 43-47: an omitted part or board stays None.
NewParams_NoDefault(part, board) ==
    [part |-> part, board |-> board]

\* The parameters the open compares and persists: an omitted part or board
\* is taken from the persisted parameters.
NewParams(part, board) ==
    LET old_params == ParamsRead
    IN [part |-> IF old_params # NoParams /\ part = NoneVal
                 THEN old_params.part ELSE part,
        board |-> IF old_params # NoParams /\ board = NoneVal
                  THEN old_params.board ELSE board]

ParamsConflict(part, board) ==
    ParamsRead # NoParams /\ ParamsRead # NewParams(part, board)

\* OpenCheck without the parameter comparison of lines 54-56.
OpenCheck_NoConflictCheck(part, board, overwrite_ok) ==
    LET new == ~dirExists
    IN IF ~new /\ MarkerFile \notin files THEN "err_marker"
       ELSE IF ParamsRead = NoParams /\ ~new THEN "err_noparams"
       ELSE IF ~new /\ HashIsChanged /\ ~overwrite_ok THEN "err_stale"
       ELSE "none"

\* OpenCheck with the marker check of lines 37-39 waived by overwrite_ok.
OpenCheck_MarkerUnlessOverwrite(part, board, overwrite_ok) ==
    LET new == ~dirExists
    IN IF ~new /\ MarkerFile \notin files /\ ~overwrite_ok THEN "err_marker"
       ELSE IF ParamsConflict(part, board) /\ ~overwrite_ok THEN "err_conflict"
       ELSE IF ParamsRead = NoParams /\ ~new THEN "err_noparams"
       ELSE IF ~new /\ HashIsChanged /\ ~overwrite_ok THEN "err_stale"
       ELSE "none"

\* The exception the checks of __init__ raise, or "none".
OpenCheck(part, board, overwrite_ok) ==
    LET new == ~dirExists
    IN IF ~new /\ MarkerFile \notin files THEN "err_marker"
       ELSE IF ParamsConflict(part, board) /\ ~overwrite_ok THEN "err_conflict"
       ELSE IF ParamsRead = NoParams /\ ~new THEN "err_noparams"
       ELSE IF ~new /\ HashIsChanged /\ ~overwrite_ok THEN "err_stale"
       ELSE "none"

\* OpenRefresh that forgets the fingerprint (lines 65-69).
OpenRefresh_ParamsOnly(part, board) ==
    ParamsConflict(part, board)

\* OpenRefresh that rebuilds every directory it finds.
OpenRefresh_Always(part, board) ==
    dirExists

\* The value of `refresh` at line 70, when no check raised.
OpenRefresh(part, board) ==
    ParamsConflict(part, board) \/ (dirExists /\ HashIsChanged)

Raise(err) ==
    /\ pc' = "idle"
    /\ call' = NoCall
    /\ result' = err
    /\ UNCHANGED <<self, simRet>>

\* OpenBegin with the fingerprint check after the rmtree of line 71: a stale
\* project without overwrite_ok is removed before the error is raised.
OpenBegin_StaleCheckLate(part, board, overwrite_ok) ==
    /\ pc = "idle"
    /\ LET err == OpenCheck(part, board, overwrite_ok)
           refresh == OpenRefresh(part, board)
           new == ~dirExists
           np == NewParams(part, board)
       IN /\ (err = "none" /\ (new \/ refresh)) => nextId <= MaxTasks
          /\ IF err = "err_stale"
             THEN /\ Raise(err)
                  /\ dirExists' = FALSE
                  /\ files' = {}
                  /\ paramsVal' = NoParams
                  /\ hashVal' = NoneVal
             ELSE IF err # "none" THEN Raise(err) /\ UNCHANGED fsVars
             ELSE IF new \/ refresh
             THEN /\ pc' = IF refresh THEN "rmtree" ELSE "mkdir"
                  /\ call' = [op |-> "open", part |-> np.part, board |-> np.board,
                              old_params |-> ParamsRead, refresh |-> refresh,
                              t |-> 0]
                  /\ result' = "pending"
                  /\ UNCHANGED <<self, simRet, fsVars>>
             ELSE /\ pc' = "idle"
                  /\ call' = NoCall
                  /\ self' = np
                  /\ result' = "ok_reused"
                  /\ UNCHANGED <<simRet, fsVars>>
    /\ UNCHANGED <<taskVars, envVars>>

\* __init__, lines 32-69: the checks, none of which writes anything.
OpenBegin(part, board, overwrite_ok) ==
    /\ pc = "idle"
    /\ LET err == OpenCheck(part, board, overwrite_ok)
           refresh == OpenRefresh(part, board)
           new == ~dirExists
           np == NewParams(part, board)
       IN /\ (err = "none" /\ (new \/ refresh)) => nextId <= MaxTasks
          /\ IF err # "none" THEN Raise(err)
             ELSE IF new \/ refresh
             THEN /\ pc' = IF refresh THEN "rmtree" ELSE "mkdir"
                  /\ call' = [op |-> "open", part |-> np.part, board |-> np.board,
                              old_params |-> ParamsRead, refresh |-> refresh,
                              t |-> 0]
                  /\ result' = "pending"
                  /\ UNCHANGED <<self, simRet>>
             ELSE /\ pc' = "idle"
                  /\ call' = NoCall
                  /\ self' = np
                  /\ result' = "ok_reused"
                  /\ UNCHANGED simRet
    /\ UNCHANGED <<fsVars, taskVars, envVars>>

\* line 71: shutil.rmtree(self.directory)
OpenRmtree ==
    /\ pc = "rmtree"
    /\ dirExists' = FALSE
    /\ files' = {}
    /\ paramsVal' = NoParams
    /\ hashVal' = NoneVal
    /\ pc' = "mkdir"
    /\ UNCHANGED <<call, self, result, simRet, taskVars, envVars>>

\* line 75: os.mkdir(self.directory)
OpenMkdir ==
    /\ pc = "mkdir"
    /\ ~dirExists
    /\ dirExists' = TRUE
    /\ pc' = "write_params"
    /\ UNCHANGED <<files, paramsVal, hashVal, call, self, result, simRet, taskVars, envVars>>

\* line 76: self.params_helper.write(new_params)
OpenWriteParams ==
    /\ pc = "write_params"
    /\ files' = files \cup {ParamsFile}
    /\ paramsVal' = [part |-> call.part, board |-> call.board]
    /\ pc' = "write_hash"
    /\ UNCHANGED <<dirExists, hashVal, call, self, result, simRet, taskVars, envVars>>

\* OpenWriteHash without line 77: no fingerprint is persisted.
OpenWriteHash_Skip ==
    /\ pc = "write_hash"
    /\ pc' = "launch"
    /\ UNCHANGED <<dirExists, files, paramsVal, hashVal, call, self, result,
                   simRet, taskVars, envVars>>

\* line 77: self.hash_helper.write()
OpenWriteHash ==
    /\ pc = "write_hash"
    /\ files' = files \cup {HashFile}
    /\ hashVal' = curHash
    /\ pc' = "launch"
    /\ UNCHANGED <<dirExists, paramsVal, call, self, result, simRet, taskVars, envVars>>

\* make_create_vivado_project_command: the exception it raises, or "none".
CreateCommandCheck(part, board) ==
    IF MarkerFile \in files THEN "err_exists"
    ELSE IF board \in KnownBoards /\ part # NoneVal THEN "err_assert"
    ELSE "none"

\* launch_create_task up to VivadoTask.create (lines 145-160).
LaunchCreateTask ==
    /\ pc = "launch"
    /\ LET err == CreateCommandCheck(call.part, call.board)
       IN IF err # "none"
          THEN /\ Raise(err)
               /\ UNCHANGED taskVars
          ELSE /\ CreateRecord("create", ProjectDir)
               /\ call' = [call EXCEPT !.t = nextId]
               /\ pc' = "run"
               /\ UNCHANGED <<procs, self, result, simRet>>
    /\ UNCHANGED <<fsVars, envVars>>

\* ------------------------------------------------------------ job launches
\* LaunchJob that takes a task id without persisting the record.
LaunchJob_NoRecord(kind) ==
    /\ pc = "idle"
    /\ self # NoObj
    /\ nextId <= MaxTasks
    /\ nextId' = nextId + 1
    /\ call' = [op |-> kind, t |-> nextId]
    /\ pc' = "run"
    /\ UNCHANGED <<store, procs, self, result, simRet, fsVars, envVars>>

\* LaunchJob that runs the task created last once more instead of a new one.
LaunchJob_RunsLast(kind) ==
    /\ pc = "idle"
    /\ self # NoObj
    /\ nextId > 1
    /\ call' = [op |-> kind, t |-> nextId - 1]
    /\ pc' = "run"
    /\ UNCHANGED <<store, nextId, procs, self, result, simRet, fsVars, envVars>>

\* synthesize / implement / generate_reports up to VivadoTask.create.
LaunchJob(kind) ==
    /\ pc = "idle"
    /\ self # NoObj
    /\ nextId <= MaxTasks
    /\ CreateRecord(kind, ProjectDir)
    /\ call' = [op |-> kind, t |-> nextId]
    /\ pc' = "run"
    /\ UNCHANGED <<procs, self, result, simRet, fsVars, envVars>>

Synthesize == LaunchJob("synthesize")

Implement == LaunchJob("implement")

GenerateReports == LaunchJob("generate_reports")

\* run_simulation up to VivadoTask.create (lines 287-303).
RunSimulation == LaunchJob("run_simulation")

\* get_utilization when the utilization file is not there (lines 192-194):
\* generate_reports up to VivadoTask.create.  When the file is there the
\* call only reads it.
GetUtilization ==
    /\ pc = "idle"
    /\ self # NoObj
    /\ Artifacts.generate_reports \notin files
    /\ nextId <= MaxTasks
    /\ CreateRecord("generate_reports", ProjectDir)
    /\ call' = [op |-> "get_utilization", t |-> nextId]
    /\ pc' = "run"
    /\ UNCHANGED <<procs, self, result, simRet, fsVars, envVars>>

\* The calls that wait for their task: run_simulation (t.run_and_wait(),
\* line 305) and get_utilization (t.wait(), line 195).
WaitingOps == {"run_simulation", "get_utilization"}

\* Run in which no caller waits: t.run() for t.run_and_wait(), no t.wait().
Run_NoWait ==
    /\ pc = "run"
    /\ procs' = procs \cup {call.t}
    /\ store' = IF call.t \in DOMAIN store
                THEN WithStatus(call.t, "running", 0) ELSE store
    /\ pc' = "idle"
    /\ call' = NoCall
    /\ self' = IF call.op = "open"
               THEN [part |-> call.part, board |-> call.board] ELSE self
    /\ result' = IF call.op = "open"
                 THEN (IF call.refresh THEN "ok_rebuilt" ELSE "ok_fresh")
                 ELSE result
    /\ UNCHANGED <<nextId, fsVars, envVars, simRet>>

\* t.run(): spawn the external process and return at once.  run_simulation
\* and get_utilization go on to wait for it.
Run ==
    /\ pc = "run"
    /\ procs' = procs \cup {call.t}
    /\ store' = IF call.t \in DOMAIN store
                THEN WithStatus(call.t, "running", 0) ELSE store
    /\ IF call.op \in WaitingOps
       THEN /\ pc' = "wait"
            /\ UNCHANGED <<call, self, result>>
       ELSE /\ pc' = "idle"
            /\ call' = NoCall
            /\ self' = IF call.op = "open"
                       THEN [part |-> call.part, board |-> call.board] ELSE self
            /\ result' = IF call.op = "open"
                         THEN (IF call.refresh THEN "ok_rebuilt" ELSE "ok_fresh")
                         ELSE result
    /\ UNCHANGED <<nextId, fsVars, envVars, simRet>>

\* t.get_errors(): the errors recorded for the task.
GetErrors(t) == store[t].errors

\* SimulationReturn without the os.path.exists test of line 309: the read of
\* a missing output file raises.
SimulationReturn_NoExistsCheck ==
    /\ pc = "wait"
    /\ call.op = "run_simulation"
    /\ call.t \notin procs
    /\ simRet' = IF simOut
                 THEN [outcome |-> "returned", errors |-> GetErrors(call.t),
                       data |-> "read"]
                 ELSE [outcome |-> "raised", errors |-> GetErrors(call.t),
                       data |-> "none"]
    /\ pc' = "idle"
    /\ call' = NoCall
    /\ UNCHANGED <<self, result, fsVars, taskVars, envVars>>

\* run_simulation after run_and_wait has returned (lines 306-316): it
\* returns the errors of the task and the contents of the output file, or an
\* empty list when there is no output file.
SimulationReturn ==
    /\ pc = "wait"
    /\ call.op = "run_simulation"
    /\ call.t \notin procs
    /\ simRet' = [outcome |-> "returned", errors |-> GetErrors(call.t),
                  data |-> IF simOut THEN "read" ELSE "empty"]
    /\ pc' = "idle"
    /\ call' = NoCall
    /\ UNCHANGED <<self, result, fsVars, taskVars, envVars>>

\* get_utilization after t.wait() has returned (lines 196-224): it reads the
\* utilization file, or raises when the task did not write it.
UtilizationReturn ==
    /\ pc = "wait"
    /\ call.op = "get_utilization"
    /\ call.t \notin procs
    /\ pc' = "idle"
    /\ call' = NoCall
    /\ UNCHANGED <<self, result, simRet, fsVars, taskVars, envVars>>

\* ------------------------------------------------------ external processes
\* What the process of a task leaves in the project directory on success.
ProcOutput(kind) ==
    IF kind = "create" THEN {MarkerFile}
    ELSE IF kind \in DOMAIN Artifacts THEN {Artifacts[kind]}
    ELSE {}

\* Whether the process of a task of this kind can succeed now: creation needs
\* the directory, every other job opens the project file, and an invalid
\* command never succeeds.
ProcCanSucceed(kind) ==
    IF kind = "create" THEN dirExists
    ELSE IF kind = "invalid" THEN FALSE
    ELSE dirExists /\ MarkerFile \in files

KindOf(t) == IF t \in DOMAIN store THEN store[t].kind ELSE "unknown"

\* The external process of task t exits cleanly.
ProcSucceed(t) ==
    /\ t \in procs
    /\ ProcCanSucceed(KindOf(t))
    /\ procs' = procs \ {t}
    /\ files' = files \cup ProcOutput(KindOf(t))
    /\ simOut' = (simOut \/ KindOf(t) = "run_simulation")
    /\ store' = IF t \in DOMAIN store THEN WithStatus(t, "completed", 0) ELSE store
    /\ UNCHANGED <<dirExists, paramsVal, hashVal, curHash, nextId, callerVars>>

\* The external process of task t exits with errors in its output.
ProcFail(t) ==
    /\ t \in procs
    /\ procs' = procs \ {t}
    /\ store' = IF t \in DOMAIN store THEN WithStatus(t, "failed", 1) ELSE store
    /\ UNCHANGED <<nextId, fsVars, envVars, callerVars>>

\* The dependencies of the project are edited: the fingerprint changes.
ChangeDeps(h) ==
    /\ h # curHash
    /\ curHash' = h
    /\ UNCHANGED <<simOut, fsVars, taskVars, callerVars>>

\* ------------------------------------------------------------- qa_task.py
QaDirs == {"testtask", "testerrorcatching"}
\* test_one creates a plain Task, test_error_catching a VivadoTask whose
\* command text is invalid.
QaKinds == {"plain", "invalid"}

\* QaSetup without tasks_collection.drop().
QaSetup_NoDrop ==
    /\ qpc = "setup"
    /\ passed' = << >>
    /\ qt' = 0
    /\ qaErrors' = -1
    /\ qpc' = "ready"
    /\ UNCHANGED <<store, procs, nextId, fsVars, envVars, callerVars>>

\* The set-up of a test: tasks_collection.drop() (lines 16-21, 28-33).
QaSetup ==
    /\ qpc = "setup"
    /\ store' = << >>
    /\ passed' = << >>
    /\ qt' = 0
    /\ qaErrors' = -1
    /\ qpc' = "ready"
    /\ UNCHANGED <<procs, nextId, fsVars, envVars, callerVars>>

\* Task.create(parent_directory, tasks_collection) (lines 22, 34-38).
QaCreate(directory, kind) ==
    /\ qpc = "ready"
    /\ nextId <= MaxTasks
    /\ CreateRecord(kind, directory)
    /\ passed' = [i \in (DOMAIN passed) \cup {nextId} |->
                     IF i = nextId THEN directory ELSE passed[i]]
    /\ qt' = nextId
    /\ UNCHANGED <<qpc, qaErrors, procs, fsVars, envVars, callerVars>>

\* t.run_and_wait(), its run() (line 42).
QaRun ==
    /\ qpc = "ready"
    /\ qt # 0
    /\ store[qt].kind = "invalid"
    /\ procs' = procs \cup {qt}
    /\ store' = WithStatus(qt, "running", 0)
    /\ qpc' = "waiting"
    /\ UNCHANGED <<qt, passed, qaErrors, nextId, fsVars, envVars, callerVars>>

\* QaWaitReturn that does not wait for the process (run() for run_and_wait()).
QaWaitReturn_NoWait ==
    /\ qpc = "waiting"
    /\ qpc' = "waited"
    /\ UNCHANGED <<qt, passed, qaErrors, taskVars, fsVars, envVars, callerVars>>

\* t.run_and_wait() returns once the process has exited (line 42).
QaWaitReturn ==
    /\ qpc = "waiting"
    /\ qt \notin procs
    /\ qpc' = "waited"
    /\ UNCHANGED <<qt, passed, qaErrors, taskVars, fsVars, envVars, callerVars>>

\* errors = t.get_errors() (lines 43-44).
QaGetErrors ==
    /\ qpc = "waited"
    /\ qaErrors' = store[qt].errors
    /\ qpc' = "checked"
    /\ UNCHANGED <<qt, passed, taskVars, fsVars, envVars, callerVars>>

\* The test process exits; the next one starts with its set-up.
QaExit ==
    /\ qpc \in {"ready", "checked", "exited"}
    /\ qpc' = IF qpc = "exited" THEN "setup" ELSE "exited"
    /\ qt' = 0
    /\ UNCHANGED <<passed, qaErrors, taskVars, fsVars, envVars, callerVars>>

\* ------------------------------------- FileTestBenchProject.update_input_data
\* One test name: the files of a test depend on the calls for that test only.
TestNames == {"t1"}
\* The bytes write_input_file writes: two of the same size, one shorter.
InputData == {<<"A", "A">>, <<"B", "B">>, <<"C">>}
NoData == << >>
NoFile == [data |-> NoData, mtime |-> 0, exists |-> FALSE]

\* filecmp.cmp(f1, f2), shallow by default: files with the same size and
\* modification time are taken to be equal without reading them.
FileCmp(f1, f2) ==
    IF Len(f1.data) = Len(f2.data) /\ f1.mtime = f2.mtime THEN TRUE
    ELSE IF Len(f1.data) # Len(f2.data) THEN FALSE
    ELSE f1.data = f2.data

\* lines 84-86: make the test directory if it is not there.
FtbBegin(test_name, input_data) ==
    /\ ftpc \in {"idle", "raised"}
    /\ ftCall' = [op |-> "update_input_data", test_name |-> test_name,
                  input_data |-> input_data]
    /\ ftDirs' = ftDirs \cup {test_name}
    /\ ftpc' = "remove_old"
    /\ UNCHANGED <<inFile, oldFile, clock, ftRet, ftPrev, ftLast>>

\* FtbRemoveOld that leaves old_input.data in place (no lines 89-90).
FtbRemoveOld_Keep ==
    /\ ftpc = "remove_old"
    /\ ftpc' = "rename"
    /\ UNCHANGED <<ftCall, ftDirs, inFile, oldFile, clock, ftRet, ftPrev, ftLast>>

\* lines 89-90: remove old_input.data if it exists.
FtbRemoveOld ==
    /\ ftpc = "remove_old"
    /\ oldFile' = [oldFile EXCEPT ![ftCall.test_name] = NoFile]
    /\ ftpc' = "rename"
    /\ UNCHANGED <<ftCall, ftDirs, inFile, clock, ftRet, ftPrev, ftLast>>

\* lines 91-92: rename input.data to old_input.data if it exists.
FtbRename ==
    /\ ftpc = "rename"
    /\ IF inFile[ftCall.test_name].exists
       THEN /\ oldFile' = [oldFile EXCEPT ![ftCall.test_name] = inFile[ftCall.test_name]]
            /\ inFile' = [inFile EXCEPT ![ftCall.test_name] = NoFile]
       ELSE UNCHANGED <<inFile, oldFile>>
    /\ ftpc' = "write"
    /\ UNCHANGED <<ftCall, ftDirs, clock, ftRet, ftPrev, ftLast>>

\* line 93: self.interface.write_input_file(input_data, input_data_fn)
FtbWrite ==
    /\ ftpc = "write"
    /\ inFile' = [inFile EXCEPT ![ftCall.test_name] =
                     [data |-> ftCall.input_data, mtime |-> clock, exists |-> TRUE]]
    /\ ftpc' = "compare"
    /\ UNCHANGED <<ftCall, ftDirs, oldFile, clock, ftRet, ftPrev, ftLast>>

\* line 93, write_input_file raises: the exception leaves update_input_data
\* (there is no handler) with input.data not created (k = -1) or holding the
\* first k bytes of the data.
FtbWriteFail(k) ==
    /\ ftpc = "write"
    /\ k < Len(ftCall.input_data)
    /\ inFile' = [inFile EXCEPT ![ftCall.test_name] =
                     IF k < 0 THEN NoFile
                     ELSE [data |-> SubSeq(ftCall.input_data, 1, k),
                           mtime |-> clock, exists |-> TRUE]]
    /\ ftLast' = [ftLast EXCEPT ![ftCall.test_name] = inFile'[ftCall.test_name]]
    /\ ftCall' = NoCall
    /\ ftpc' = "raised"
    /\ UNCHANGED <<ftDirs, oldFile, clock, ftRet, ftPrev>>

\* lines 94-98: compare with old_input.data and return is_changed.
FtbCompare ==
    /\ ftpc = "compare"
    /\ ftRet' = IF oldFile[ftCall.test_name].exists
                THEN ~FileCmp(inFile[ftCall.test_name], oldFile[ftCall.test_name])
                ELSE TRUE
    /\ ftPrev' = [ftPrev EXCEPT ![ftCall.test_name] = ftCall.input_data]
    /\ ftLast' = [ftLast EXCEPT ![ftCall.test_name] = inFile[ftCall.test_name]]
    /\ ftCall' = NoCall
    /\ ftpc' = "idle"
    /\ UNCHANGED <<ftDirs, inFile, oldFile, clock>>

\* The modification-time clock of the file system advances.
Tick ==
    /\ clock < MaxClock
    /\ clock' = clock + 1
    /\ UNCHANGED <<ftpc, ftCall, ftDirs, inFile, oldFile, ftRet, ftPrev, ftLast>>

\* -------------------------------------------- redis_connection.Connection
\* The positions of the caller inside kill_monitor.
InKillMonitor == {"k_test", "k_sleep", "k_final"}

\* What is_monitor_alive() returns (lines 31-32).
IsMonitorAlive == IF monAlive THEN "alive" ELSE "dead"

\* kill_monitor, lines 35-36: set the kill flag and start counting.
KillMonitor(time_limit) ==
    /\ rpc = "idle"
    /\ killFlag' = 1
    /\ rcall' = [op |-> "kill_monitor", time_limit |-> time_limit,
                 counter |-> 0, polls |-> 0, seen |-> "none"]
    /\ rpc' = "k_test"
    /\ UNCHANGED <<monAlive, rret, chanVars>>

\* line 37: the loop test; is_monitor_alive() is evaluated only when
\* counter < time_limit.
KillTest ==
    /\ rpc = "k_test"
    /\ IF rcall.counter < rcall.time_limit
       THEN /\ rcall' = [rcall EXCEPT !.polls = @ + 1, !.seen = IsMonitorAlive]
            /\ rpc' = IF monAlive THEN "k_sleep" ELSE "k_final"
       ELSE /\ rpc' = "k_final"
            /\ UNCHANGED rcall
    /\ UNCHANGED <<monAlive, killFlag, rret, chanVars>>

\* lines 38-39: time.sleep(1); counter += 1
KillSleep ==
    /\ rpc = "k_sleep"
    /\ rcall' = [rcall EXCEPT !.counter = @ + 1]
    /\ rpc' = "k_test"
    /\ UNCHANGED <<monAlive, killFlag, rret, chanVars>>

\* KillFinal without lines 40-41: return whatever the loop saw.
KillFinal_NoCheck ==
    /\ rpc = "k_final"
    /\ rret' = [op |-> "kill_monitor", outcome |-> "returned",
                time_limit |-> rcall.time_limit, counter |-> rcall.counter,
                polls |-> rcall.polls, seen |-> rcall.seen]
    /\ rcall' = NoCall
    /\ rpc' = "idle"
    /\ UNCHANGED <<monAlive, killFlag, chanVars>>

\* lines 40-41: one more is_monitor_alive(); raise if the monitor is alive.
KillFinal ==
    /\ rpc = "k_final"
    /\ rret' = [op |-> "kill_monitor",
                outcome |-> IF monAlive THEN "raised" ELSE "returned",
                time_limit |-> rcall.time_limit, counter |-> rcall.counter,
                polls |-> rcall.polls + 1, seen |-> IsMonitorAlive]
    /\ rcall' = NoCall
    /\ rpc' = "idle"
    /\ UNCHANGED <<monAlive, killFlag, chanVars>>

\* The monitor process exits, on the kill flag or on its own.
MonitorExit ==
    /\ monAlive
    /\ monAlive' = FALSE
    /\ monPending' = 0
    /\ UNCHANGED <<killFlag, comm, listened, reqSeq, rpc, rcall, rret>>

\* A monitor is started for the hardware, between two calls of the caller.
MonitorStart ==
    /\ ~monAlive
    /\ rpc = "idle"
    /\ monAlive' = TRUE
    /\ killFlag' = 0
    /\ UNCHANGED <<rpc, rcall, rret, chanVars>>

\* The values of the channel: a request of the caller ('C ...'), a response
\* of the monitor ('R ...'), each with the number of the request it belongs
\* to, or nothing yet.
NoValue == [tag |-> "none", seq |-> 0]
RequestText(seq) == [tag |-> "C", seq |-> seq]
ResponseText(seq) == [tag |-> "R", seq |-> seq]
\* The local `response` before its first assignment.
Unbound == [tag |-> "unbound", seq |-> 0]

\* The whitespace-separated tokens of a channel value: the request of read is
\* 'C R <address> <length>' (line 68); a response is 'R', two more tokens and
\* then the data, as line 70 skips three tokens.
Token(kind, seq) == [kind |-> kind, seq |-> seq]
Split(value) ==
    IF value.tag = "C"
    THEN <<Token("C", 0), Token("R", 0), Token("address", value.seq),
           Token("length", value.seq)>>
    ELSE IF value.tag = "R"
    THEN <<Token("R", 0), Token("header", value.seq),
           Token("header", value.seq), Token("data", value.seq)>>
    ELSE <<>>

\* line 70: every token from the fourth on, read as a hexadecimal number.
\* The decimal digits of <length> are hexadecimal digits too, so the request
\* text parses without an error, to a number that is not data.
ReadBits(response) ==
    LET tokens == Split(response)
    IN [i \in 1..(IF Len(tokens) > 3 THEN Len(tokens) - 3 ELSE 0) |->
           [from |-> tokens[i + 3].kind, seq |-> tokens[i + 3].seq]]

\* What the call hands back: read returns the parsed list (line 71), write
\* returns nothing.
Returned(op, response) ==
    IF op = "read" /\ response # Unbound THEN ReadBits(response) ELSE <<>>

\* timeout=None, or a number of waittime units.
Timeouts ==
    {[none |-> TRUE, units |-> 0]}
        \cup {[none |-> FALSE, units |-> u] : u \in 0..MaxTimeout}

\* read / write / write_repeat up to wait_for_response (lines 58, 63, 68 and
\* 45-47): store the request on the channel.
Request(op, timeout) ==
    /\ rpc = "idle"
    /\ reqSeq < MaxRequests
    /\ reqSeq' = reqSeq + 1
    /\ comm' = RequestText(reqSeq + 1)
    /\ rcall' = [op |-> op, timeout |-> timeout, waiting_time |-> 0,
                 got_response |-> FALSE, response |-> Unbound,
                 seq |-> reqSeq + 1]
    /\ rpc' = "w_test"
    /\ UNCHANGED <<monAlive, killFlag, listened, monPending, rret>>

\* line 48 and line 55: the loop test, and the return when it fails; the
\* return of a `response` that was never assigned raises.  The return goes on
\* through the caller: read parses the value (lines 69-71).
WaitTest ==
    /\ rpc = "w_test"
    /\ IF (~rcall.got_response)
          /\ (rcall.timeout.none \/ rcall.waiting_time < rcall.timeout.units)
       THEN /\ rpc' = "w_poll"
            /\ UNCHANGED <<rcall, rret>>
       ELSE /\ rret' = [op |-> rcall.op,
                        outcome |-> IF rcall.response = Unbound
                                    THEN "raised" ELSE "returned",
                        value |-> rcall.response, polls |-> rcall.waiting_time,
                        timeout |-> rcall.timeout, seq |-> rcall.seq,
                        bits |-> Returned(rcall.op, rcall.response)]
            /\ rcall' = NoCall
            /\ rpc' = "idle"
    /\ UNCHANGED <<monAlive, killFlag, chanVars>>

\* WaitPoll that takes whatever is on the channel for a response.
WaitPoll_AnyValue ==
    /\ rpc = "w_poll"
    /\ rcall.waiting_time <= MaxTimeout
    /\ rcall' = [rcall EXCEPT !.response = comm,
                              !.got_response = TRUE,
                              !.waiting_time = @ + 1]
    /\ listened' = "fresh"
    /\ rpc' = "w_test"
    /\ UNCHANGED <<monAlive, killFlag, comm, monPending, reqSeq, rret>>

\* lines 49-54: one poll: read the channel, accept a value that begins with
\* 'R', refresh the heartbeat, sleep.
WaitPoll ==
    /\ rpc = "w_poll"
    /\ rcall.waiting_time <= MaxTimeout
    /\ rcall' = [rcall EXCEPT !.response = comm,
                              !.got_response = (comm.tag = "R"),
                              !.waiting_time = @ + 1]
    /\ listened' = "fresh"
    /\ rpc' = "w_test"
    /\ UNCHANGED <<monAlive, killFlag, comm, monPending, reqSeq, rret>>

\* The monitor takes the request that is on the channel.
MonitorTake ==
    /\ monAlive
    /\ comm.tag = "C"
    /\ monPending # comm.seq
    /\ monPending' = comm.seq
    /\ UNCHANGED <<monAlive, killFlag, comm, listened, reqSeq, rpc, rcall, rret>>

\* The monitor stores its response to the request it took.
MonitorRespond ==
    /\ monAlive
    /\ monPending # 0
    /\ comm' = ResponseText(monPending)
    /\ monPending' = 0
    /\ UNCHANGED <<monAlive, killFlag, listened, reqSeq, rpc, rcall, rret>>

\* Time passes: the heartbeat is no longer recent.
HeartbeatAge ==
    /\ listened = "fresh"
    /\ listened' = "stale"
    /\ UNCHANGED <<monAlive, killFlag, comm, monPending, reqSeq, rpc, rcall, rret>>

\* ------------------------------------------------------------ specification
\* Before the first open the directory is not there, or it holds a project
\* that was not made by an open: the project file without params.txt.
InitProject ==
    /\ dirExists \in BOOLEAN
    /\ files = IF dirExists THEN {MarkerFile} ELSE {}
    /\ paramsVal = NoParams
    /\ hashVal = NoneVal
    /\ curHash \in Hashes
    /\ simOut = FALSE
    /\ store = << >>
    /\ procs = {}
    /\ nextId = 1
    /\ pc = "idle"
    /\ call = NoCall
    /\ self = NoObj
    /\ result = "none"
    /\ simRet = [outcome |-> "none", errors |-> 0, data |-> "none"]

\* The test process and the test bench before anything ran.
InitQa ==
    /\ qpc = "setup"
    /\ qt = 0
    /\ passed = << >>
    /\ qaErrors = -1

InitFtb ==
    /\ ftpc = "idle"
    /\ ftCall = NoCall
    /\ ftDirs = {}
    /\ inFile = [n \in TestNames |-> NoFile]
    /\ oldFile = [n \in TestNames |-> NoFile]
    /\ clock = 0
    /\ ftRet = "none"
    /\ ftPrev = [n \in TestNames |-> NoData]
    /\ ftLast = [n \in TestNames |-> NoFile]

InitRedis ==
    /\ monAlive = FALSE
    /\ killFlag = 0
    /\ comm = NoValue
    /\ listened = "unset"
    /\ monPending = 0
    /\ reqSeq = 0
    /\ rpc = "idle"
    /\ rcall = NoCall
    /\ rret = NoCall

Init == InitProject /\ InitQa /\ InitFtb /\ InitRedis

\* The start of the specifications in which no project is opened.
InitOthers == Init /\ curHash = "h1" /\ ~dirExists

\* What a step of the project leaves alone, and so on for the others.
ProjectFrame == UNCHANGED <<qaVars, ftbVars, redisVars>>
QaFrame == UNCHANGED <<ftbVars, redisVars>>
FtbFrame == UNCHANGED <<fsVars, taskVars, callerVars, envVars, qaVars, redisVars>>
RedisFrame == UNCHANGED <<fsVars, taskVars, callerVars, envVars, qaVars, ftbVars>>

Next ==
    \/ \E part \in Parts, board \in Boards, overwrite_ok \in BOOLEAN :
          OpenBegin(part, board, overwrite_ok) /\ ProjectFrame
    \/ OpenRmtree /\ ProjectFrame
    \/ OpenMkdir /\ ProjectFrame
    \/ OpenWriteParams /\ ProjectFrame
    \/ OpenWriteHash /\ ProjectFrame
    \/ LaunchCreateTask /\ ProjectFrame
    \/ Synthesize /\ ProjectFrame
    \/ Implement /\ ProjectFrame
    \/ GenerateReports /\ ProjectFrame
    \/ RunSimulation /\ ProjectFrame
    \/ GetUtilization /\ ProjectFrame
    \/ Run /\ ProjectFrame
    \/ SimulationReturn /\ ProjectFrame
    \/ UtilizationReturn /\ ProjectFrame
    \/ \E t \in procs : ProcSucceed(t) /\ ProjectFrame
    \/ \E t \in procs : ProcFail(t) /\ ProjectFrame
    \/ \E h \in Hashes : ChangeDeps(h) /\ ProjectFrame

Spec == Init /\ [][Next]_vars

\* The tests of qa_task.py against the task store.
NextQa ==
    \/ QaSetup /\ QaFrame
    \/ \E d \in QaDirs, k \in QaKinds : QaCreate(d, k) /\ QaFrame
    \/ QaRun /\ QaFrame
    \/ QaWaitReturn /\ QaFrame
    \/ QaGetErrors /\ QaFrame
    \/ QaExit /\ QaFrame
    \/ \E t \in procs : ProcFail(t) /\ UNCHANGED qaVars /\ QaFrame

SpecQa == InitOthers /\ [][NextQa]_vars

\* The external process is scheduled by the operating system and the test
\* process keeps running: neither waits forever once it can step.
SpecQaFair ==
    /\ SpecQa
    /\ WF_vars(\E t \in procs : ProcFail(t) /\ UNCHANGED qaVars /\ QaFrame)
    /\ WF_vars(QaWaitReturn /\ QaFrame)
    /\ WF_vars(QaGetErrors /\ QaFrame)

\* update_input_data called again and again while the clock advances.
NextFtb ==
    \/ \E n \in TestNames, d \in InputData : FtbBegin(n, d) /\ FtbFrame
    \/ FtbRemoveOld /\ FtbFrame
    \/ FtbRename /\ FtbFrame
    \/ FtbWrite /\ FtbFrame
    \/ \E k \in -1..1 : FtbWriteFail(k) /\ FtbFrame
    \/ FtbCompare /\ FtbFrame
    \/ Tick /\ FtbFrame

SpecFtb == InitOthers /\ [][NextFtb]_vars

\* One caller of a Connection and the monitor of its hardware.
NextRedis ==
    \/ \E time_limit \in 0..MaxTimeLimit : KillMonitor(time_limit) /\ RedisFrame
    \/ KillTest /\ RedisFrame
    \/ KillSleep /\ RedisFrame
    \/ KillFinal /\ RedisFrame
    \/ MonitorExit /\ RedisFrame
    \/ MonitorStart /\ RedisFrame
    \/ \E op \in {"read", "write"}, timeout \in Timeouts :
          Request(op, timeout) /\ RedisFrame
    \/ WaitTest /\ RedisFrame
    \/ WaitPoll /\ RedisFrame
    \/ MonitorTake /\ RedisFrame
    \/ MonitorRespond /\ RedisFrame
    \/ HeartbeatAge /\ RedisFrame

SpecRedis == InitOthers /\ [][NextRedis]_vars

\* The caller's thread keeps running: time.sleep returns and the loop goes
\* on.  Nothing is assumed about the monitor.
SpecRedisFair ==
    /\ SpecRedis
    /\ WF_vars(KillTest /\ RedisFrame)
    /\ WF_vars(KillSleep /\ RedisFrame)
    /\ WF_vars(KillFinal /\ RedisFrame)
    /\ WF_vars(WaitTest /\ RedisFrame)
    /\ WF_vars(WaitPoll /\ RedisFrame)

\* ------------------------------------------------------------------ claims
\* An existing project: the directory and its marker artifact are there.
ExistingProject == dirExists /\ MarkerFile \in files

\* The requested parameters with an omitted (None) value taken from old.
Effective(part, board, old) ==
    [part |-> IF part = NoneVal THEN old.part ELSE part,
     board |-> IF board = NoneVal THEN old.board ELSE board]

Requested(part, board) == [part |-> part, board |-> board]

\* The open in progress is a rebuild caused by a parameter conflict.
ConflictRebuild ==
    /\ pc \in {"rmtree", "mkdir", "write_params", "write_hash", "launch", "run"}
    /\ call.op = "open"
    /\ call.old_params # NoParams
    /\ call.old_params # Requested(call.part, call.board)

C2_Original ==
    [][/\ \A part \in Parts, board \in Boards :
            (/\ ExistingProject /\ HashFile \in files /\ HashIsChanged
             /\ OpenBegin(part, board, FALSE))
            => result' = "err_stale"
       /\ \A part \in Parts, board \in Boards :
            (/\ ExistingProject /\ HashFile \in files /\ HashIsChanged
             /\ OpenBegin(part, board, TRUE))
            => pc' = "rmtree"
      ]_vars

\* C2 as amended: without overwrite_ok the open of a stale existing project
\* (marker and params.txt present) raises and changes nothing: the
\* parameter-conflict error when the effective parameters also differ from
\* the persisted ones, the stale-project error otherwise.  It is never
\* reused; with overwrite_ok the open starts a rebuild.
C2_StaleNeverReused ==
    [][/\ \A part \in Parts, board \in Boards :
            (/\ ExistingProject /\ ParamsRead # NoParams /\ HashIsChanged
             /\ OpenBegin(part, board, FALSE))
            => /\ result' = IF ParamsRead # Effective(part, board, ParamsRead)
                            THEN "err_conflict" ELSE "err_stale"
               /\ pc' = "idle"
               /\ UNCHANGED <<fsVars, taskVars, self>>
       /\ \A part \in Parts, board \in Boards :
            (/\ ExistingProject /\ ParamsRead # NoParams /\ HashIsChanged
             /\ OpenBegin(part, board, TRUE))
            => pc' = "rmtree" /\ result' = "pending"
      ]_vars

\* A stale project was refused: the last open raised the stale-project error
\* and the persisted fingerprint still differs from the current one.
C2_Witness ==
    /\ pc = "idle"
    /\ result = "err_stale"
    /\ ExistingProject
    /\ HashFile \in files
    /\ hashVal # curHash

\* C3: an open that finds the directory without the marker artifact raises
\* the fatal error whatever overwrite_ok is, and repairs nothing: the
\* directory, params.txt, the fingerprint, the task store and the running
\* processes are as before.
C3_MissingMarkerFatal ==
    [][\A part \in Parts, board \in Boards, overwrite_ok \in BOOLEAN :
         (dirExists /\ MarkerFile \notin files
          /\ OpenBegin(part, board, overwrite_ok))
         => /\ result' = "err_marker"
            /\ pc' = "idle"
            /\ UNCHANGED <<fsVars, taskVars, self>>
      ]_vars

\* An open raised the fatal error while the creation task of a fresh create
\* was still running and had not produced the marker.
C3_Witness ==
    /\ pc = "idle"
    /\ result = "err_marker"
    /\ dirExists
    /\ MarkerFile \notin files
    /\ \E t \in procs : store[t].kind = "create"

\* C4: when the last open returned and the project is unmodified since (same
\* persisted parameters, same fingerprint), an open with the same part and
\* board ends at once without creating a task record or spawning a process,
\* and without touching the directory.
C4_SecondOpenSubmitsNothing ==
    [][\A part \in Parts, board \in Boards, overwrite_ok \in BOOLEAN :
         (/\ result \in OpenReturns
          /\ dirExists
          /\ ParamsRead = self
          /\ part \in {NoneVal, self.part}
          /\ board \in {NoneVal, self.board}
          /\ ~HashIsChanged
          /\ OpenBegin(part, board, overwrite_ok))
         => /\ pc' = "idle"
            /\ UNCHANGED <<taskVars, fsVars>>
      ]_vars

\* A second open reused the project: only the creation task of the first
\* open was ever recorded, and it has finished.
C4_Witness ==
    /\ pc = "idle"
    /\ result = "ok_reused"
    /\ DOMAIN store = {1}
    /\ store[1].kind = "create"
    /\ procs = {}

\* C5 as stated: a rebuild removes the whole directory, recreates it, persists
\* the new parameters and the current fingerprint and submits exactly one
\* creation task, in that order.
C5_Original ==
    [][/\ (pc = "rmtree" /\ pc' # pc)
            => (~dirExists' /\ files' = {} /\ nextId' = nextId /\ pc' = "mkdir")
       /\ (pc = "mkdir" /\ call.refresh /\ pc' # pc)
            => (dirExists' /\ files' = {} /\ nextId' = nextId)
       /\ (pc = "write_params" /\ call.refresh /\ pc' # pc)
            => (files' = {ParamsFile} /\ nextId' = nextId
                /\ paramsVal' = Requested(call.part, call.board))
       /\ (pc = "write_hash" /\ call.refresh /\ pc' # pc)
            => (files' = {ParamsFile, HashFile} /\ nextId' = nextId
                /\ hashVal' = curHash)
       /\ (pc = "launch" /\ call.refresh /\ pc' # pc)
            => (nextId' = nextId + 1 /\ pc' = "run"
                /\ store'[nextId].kind = "create")
       /\ (pc = "run" /\ call.op = "open" /\ call.refresh /\ pc' # pc)
            => (procs' = procs \cup {call.t} /\ result' = "ok_rebuilt"
                /\ files' \subseteq {ParamsFile, HashFile})
      ]_vars

\* C6 as stated: an open that raises after it has begun to change the
\* directory has submitted its creation task; in particular no raise out of
\* launch_create_task leaves params.txt and the fingerprint without one.
C6_Original ==
    [][(pc # "idle" /\ call.op = "open" /\ pc' = "idle" /\ result' \in OpenErrors)
        => ~(/\ dirExists'
             /\ {ParamsFile, HashFile} \subseteq files'
             /\ (call.t = 0 \/ call.t \notin procs'))
      ]_vars

\* C7: every task whose external process is alive has its record in the
\* store, and the record of the task about to be run is already persisted,
\* with no process yet.
C7_RecordBeforeSpawn ==
    /\ \A t \in procs : t \in DOMAIN store
    /\ (pc = "run") => (call.t \in DOMAIN store /\ call.t \notin procs)

\* The processes of a creation task and of a later job are alive, both with
\* records.
C7_Witness ==
    /\ \E t \in procs : t \in DOMAIN store /\ store[t].kind = "create"
    /\ \E t \in procs : t \in DOMAIN store /\ store[t].kind # "create"


\* C8: after drop() and n calls of create(), count() is n, every created id
\* is found, and the record found holds the parent_directory given to
\* create(); also once the process that created the records has exited.
C8_CreatedRecordsAreFound ==
    /\ Cardinality(DOMAIN store) = Cardinality(DOMAIN passed)
    /\ \A t \in DOMAIN passed :
          t \in DOMAIN store /\ store[t].parent_directory = passed[t]

\* The creating process has exited after two create() calls that followed a
\* drop() which itself removed an earlier record.
C8_Witness ==
    /\ qpc = "exited"
    /\ Cardinality(DOMAIN passed) = 2
    /\ 1 \notin DOMAIN store
    /\ \E t \in DOMAIN passed : passed[t] = "testerrorcatching"

\* C9: run_and_wait() on a task with an invalid command returns, and the
\* get_errors() that follows returns a non-empty list.
C9_InvalidCommandTerminatesWithErrors ==
    (qpc = "waiting") ~> (qpc = "checked" /\ qaErrors > 0)

\* get_errors() has returned a non-empty list for the invalid task, whose
\* process is gone and whose record says failed.
C9_Witness ==
    /\ qpc = "checked"
    /\ qaErrors > 0
    /\ qt \notin procs
    /\ store[qt].kind = "invalid"
    /\ store[qt].status = "failed"

\* C10 as stated: update_input_data returns True on the first call for a test
\* name, and on a later call True exactly when the data written differs from
\* the data the preceding call wrote for that test name.
C10_Original ==
    [][(ftpc = "compare" /\ ftpc' = "idle")
        => ftRet' = (\/ ftPrev[ftCall.test_name] = NoData
                     \/ ftCall.input_data # ftPrev[ftCall.test_name])
      ]_vars

\* C11 as stated: update_input_data is atomic.  A call that returns leaves
\* input.data fully written with its data and old_input.data, when there is
\* one, fully written; a call that raises leaves nothing half-written and
\* does not leave input.data missing with the previous one rotated away.
C11_Original ==
    [][/\ (ftpc = "compare" /\ ftpc' = "idle")
            => /\ inFile'[ftCall.test_name].exists
               /\ inFile'[ftCall.test_name].data = ftCall.input_data
               /\ oldFile'[ftCall.test_name].exists
                    => oldFile'[ftCall.test_name].data \in InputData
       /\ (ftpc # "raised" /\ ftpc' = "raised")
            => /\ inFile'[ftCall.test_name].exists
                    => inFile'[ftCall.test_name].data \in InputData
               /\ ~(/\ ~inFile'[ftCall.test_name].exists
                    /\ oldFile'[ftCall.test_name].exists)
      ]_vars

C12_Original ==
    /\ [](rpc \in InKillMonitor => killFlag = 1)
    /\ [](rret.op = "kill_monitor"
            => /\ rret.polls <= rret.time_limit
               /\ (rret.outcome = "returned") = (rret.seen = "dead")
               /\ (rret.outcome = "raised") = (rret.seen = "alive"))
    /\ ((rpc \in InKillMonitor) ~> (rpc = "idle"))

\* C12 as amended: kill_monitor sets the kill flag, sleeps at most time_limit
\* times and evaluates the liveness predicate at most time_limit + 1 times
\* (once per loop test and once more after the loop), and always ends: it
\* returns when the last evaluation saw the monitor dead and raises when it
\* saw it alive, which happens only after time_limit sleeps.
C12_KillMonitorTerminates ==
    /\ [](rpc \in InKillMonitor
            => /\ killFlag = 1
               /\ rcall.counter <= rcall.time_limit
               /\ rcall.polls <= rcall.counter + 1)
    /\ [](rret.op = "kill_monitor"
            => /\ rret.polls <= rret.time_limit + 1
               /\ rret.counter <= rret.time_limit
               /\ (rret.outcome = "returned") = (rret.seen = "dead")
               /\ (rret.outcome = "raised") = (rret.seen = "alive")
               /\ rret.outcome = "raised" => rret.counter = rret.time_limit)
    /\ ((rpc \in InKillMonitor) ~> (rpc = "idle"))

\* kill_monitor raised: the monitor was alive at every one of the
\* time_limit + 1 evaluations.
C12_Witness ==
    /\ rpc = "idle"
    /\ rret.op = "kill_monitor"
    /\ rret.outcome = "raised"
    /\ rret.time_limit = MaxTimeLimit
    /\ rret.polls = rret.time_limit + 1
    /\ monAlive

\* The caller is inside wait_for_response.
InWait == rpc \in {"w_test", "w_poll"}

\* C16: every poll of wait_for_response reads the channel, accepts the value
\* exactly when it begins with 'R' and refreshes the heartbeat.  Without a
\* timeout the call does not end while no poll has seen such a value and
\* returns the value of the first poll that saw one, without polling again;
\* with a finite timeout it polls at most timeout / waittime times and ends.
C16_AcceptsFirstResponse ==
    /\ [][/\ (rpc = "w_poll" /\ rpc' # rpc)
               => /\ listened' = "fresh"
                  /\ rcall'.response = comm
                  /\ rcall'.got_response = (comm.tag = "R")
          /\ (rpc = "w_test" /\ rcall.timeout.none /\ ~rcall.got_response)
               => rpc' # "idle"
          /\ (rpc = "w_test" /\ rcall.got_response) => rpc' # "w_poll"
          /\ (rpc = "w_test" /\ rpc' = "idle" /\ rcall.timeout.none)
               => /\ rret'.outcome = "returned"
                  /\ rret'.value.tag = "R"
                  /\ rret'.value = rcall.response
          /\ (rpc = "w_test" /\ rpc' = "idle" /\ ~rcall.timeout.none)
               => rret'.polls <= rcall.timeout.units
          ]_vars
    /\ ((InWait /\ ~rcall.timeout.none) ~> (rpc = "idle"))

\* A wait without timeout polled while the request was still on the channel
\* and returned the response at a later poll.
C16_Witness ==
    /\ rpc = "idle"
    /\ rret.op = "read"
    /\ rret.outcome = "returned"
    /\ rret.timeout.none
    /\ rret.polls > 1
    /\ rret.value = ResponseText(rret.seq)

\* The statuses of a task whose process has ended.
Terminal == {"completed", "failed", "killed"}

\* C13: run() returns at once.  An open that creates the project and
\* synthesize, implement and generate_reports return with the process of
\* their task alive and its record running; run_simulation and
\* get_utilization go on to wait and return only when that process has
\* ended and the record is terminal.
C13_OnlyWaitersBlock ==
    [][/\ (pc = "run" /\ pc' # pc /\ call.op \notin WaitingOps)
            => /\ pc' = "idle"
               /\ call.t \in procs'
               /\ store'[call.t].status = "running"
       /\ (pc = "run" /\ pc' # pc /\ call.op \in WaitingOps)
            => /\ pc' = "wait"
               /\ call.t \in procs'
       /\ (pc = "wait" /\ pc' # pc)
            => /\ call.op \in WaitingOps
               /\ call.t \notin procs'
               /\ store'[call.t].status \in Terminal
      ]_vars

\* A rebuilding open and a later synthesize have both returned while the
\* creation task is still running and the marker is not written.
C13_Witness ==
    /\ pc = "idle"
    /\ result = "ok_rebuilt"
    /\ MarkerFile \notin files
    /\ \E t \in procs : store[t].kind = "create" /\ store[t].status = "running"
    /\ \E t \in procs : store[t].kind = "synthesize"

Rebuilding ==
    /\ call.op = "open"
    /\ call.refresh
    /\ pc \in {"rmtree", "mkdir", "write_params", "write_hash", "launch", "run"}

\* C18 as stated: while an open removes and recreates the directory, no task
\* launched earlier against that directory is still running.
C18_Original ==
    Rebuilding
        => ~(\E t \in procs : /\ t \in DOMAIN store
                              /\ store[t].parent_directory = ProjectDir
                              /\ store[t].status = "running")

\* C19: from the return of an open (fresh, reused or rebuilt) until the next
\* open, params.txt holds the part and board of the returned object and a
\* fingerprint is persisted.  A reusing open returns with the persisted
\* fingerprint equal to the current one; a creating or rebuilding open
\* persists the fingerprint of the dependencies as they are at line 77 and
\* neither it nor params.txt changes up to the return.
C19_PersistedMatchesObject ==
    [][/\ (result' \in OpenReturns)
            => /\ dirExists'
               /\ ParamsRead' = self'
               /\ HashFile \in files'
       /\ (result' = "ok_reused" /\ pc = "idle" /\ result' # result)
            => hashVal' = curHash'
       /\ (pc = "write_hash" /\ pc' # pc)
            => /\ HashFile \in files'
               /\ hashVal' = curHash
               /\ ParamsRead' = Requested(call.part, call.board)
       /\ (pc \in {"launch", "run"} /\ call.op = "open")
            => /\ hashVal' = hashVal
               /\ ParamsRead' = ParamsRead
               /\ HashFile \in files'
       /\ (pc = "run" /\ call.op = "open" /\ pc' = "idle")
            => /\ result' \in {"ok_fresh", "ok_rebuilt"}
               /\ self' = Requested(call.part, call.board)
      ]_vars

\* A rebuilding open has returned: the object, params.txt and the
\* fingerprint agree, and the project had been created before.
C19_Witness ==
    /\ pc = "idle"
    /\ result = "ok_rebuilt"
    /\ ParamsRead = self
    /\ HashFile \in files
    /\ hashVal = curHash
    /\ Cardinality({t \in DOMAIN store : store[t].kind = "create"}) = 2

\* The errors of the explicit checks of __init__ (lines 37-39, 53-56, 59-61
\* and 65-67).
CheckErrors == {"err_marker", "err_conflict", "err_noparams", "err_stale"}

\* C20: an open that raises one of the errors of its explicit checks has
\* changed nothing: the directory and its files, params.txt, the persisted
\* fingerprint, the task store and the running processes are as before the
\* call, no task id was taken, and the object opened last is as it was.
C20_CheckErrorsChangeNothing ==
    [][\A part \in Parts, board \in Boards, overwrite_ok \in BOOLEAN :
         (OpenBegin(part, board, overwrite_ok) /\ result' \in CheckErrors)
         => /\ pc' = "idle"
            /\ UNCHANGED <<fsVars, taskVars, self>>
            /\ result' = OpenCheck(part, board, overwrite_ok)
      ]_vars

\* An open of a project was refused for a parameter conflict while a task of
\* the project was running: directory, records and process are all there.
C20_Witness ==
    /\ pc = "idle"
    /\ result = "err_conflict"
    /\ ExistingProject
    /\ ParamsRead = self
    /\ ~HashIsChanged
    /\ \E t \in procs : store[t].kind = "synthesize"

\* An open of an existing project with part and/or board omitted.
OmittingOpen(part, board, overwrite_ok) ==
    /\ ExistingProject
    /\ ParamsRead # NoParams
    /\ (part = NoneVal \/ board = NoneVal)
    /\ OpenBegin(part, board, overwrite_ok)

\* C21 as stated: an open of an existing project with part and/or board
\* omitted never raises the parameter-conflict error, starts a rebuild only
\* for a changed fingerprint, and leaves the persisted parameters as they are.
C21_Original ==
    [][\A part \in Parts, board \in Boards, overwrite_ok \in BOOLEAN :
         OmittingOpen(part, board, overwrite_ok)
         => /\ result' # "err_conflict"
            /\ (pc' = "rmtree") => HashIsChanged
            /\ ParamsRead' = ParamsRead
      ]_vars

\* C21 as amended: an omitted part or board is taken from the persisted
\* parameters and never conflicts by itself.  With both omitted the open
\* never raises the parameter-conflict error and rebuilds only for a changed
\* fingerprint; with one omitted it conflicts exactly when the value that was
\* given differs from the persisted one (an error without overwrite_ok, a
\* rebuild with it).  The step leaves the persisted parameters as they are,
\* and a rebuild it starts will write the omitted values as they were.
C21_OmittedTakenFromPersisted ==
    [][\A part \in Parts, board \in Boards, overwrite_ok \in BOOLEAN :
         OmittingOpen(part, board, overwrite_ok)
         => LET old == ParamsRead
                differs == \/ (part # NoneVal /\ part # old.part)
                           \/ (board # NoneVal /\ board # old.board)
            IN /\ (result' = "err_conflict") = (differs /\ ~overwrite_ok)
               /\ (pc' = "rmtree") => (differs \/ HashIsChanged)
               /\ (differs /\ overwrite_ok) => pc' = "rmtree"
               /\ ParamsRead' = old
               /\ (pc' = "rmtree")
                    => /\ part = NoneVal => call'.part = old.part
                       /\ board = NoneVal => call'.board = old.board
               /\ (result' = "ok_reused") => self' = old
      ]_vars

\* An open whose parameters, with the omitted ones filled in, equal the
\* persisted ones has started a rebuild, for the changed fingerprint alone.
C21_Witness ==
    /\ pc = "rmtree"
    /\ call.op = "open"
    /\ call.old_params # NoParams
    /\ call.old_params = Requested(call.part, call.board)
    /\ ExistingProject
    /\ ParamsRead = call.old_params
    /\ HashIsChanged

\* C22 as stated: every list read returns was parsed from a response to this
\* call's own request, never from the request text or from a response to an
\* earlier request, whatever the timeout.
C22_Original ==
    (rret.op = "read" /\ rret.outcome = "returned")
        => /\ rret.value = ResponseText(rret.seq)
           /\ \A i \in DOMAIN rret.bits :
                 rret.bits[i] = [from |-> "data", seq |-> rret.seq]

====
